---- MODULE Spec2Model ----
(***************************************************************************)
(* The vendor invoice module of src/app.py (class VendorAppWindow): the    *)
(* input form, the in-memory list of invoice lines, the invoice preview    *)
(* with its running total, and the submission of the lines as rows of the  *)
(* vendor worksheet.                                                       *)
(*                                                                         *)
(* A text is a sequence of tokens: a token is one whitespace character, one*)
(* other character, or a whole word that the code never looks into.  The   *)
(* Python value None of selected_index is <<>> and the index i is <<i>>    *)
(* (0-based, as in the code).  A file path is the sequence of its          *)
(* components (each a text), the empty path '' being <<>>.  The clock is   *)
(* a counter that every reading of datetime.datetime.now() advances by     *)
(* one, so that two readings never return the same time.  Each handler is  *)
(* one step: the window is single-threaded and its dialogs are modal.      *)
(* submit_all is a step that can always be taken, although the button that *)
(* calls it is created disabled and only toggle_submit could enable it.    *)
(***************************************************************************)
EXTENDS Integers, Sequences, FiniteSets, TLC

VARIABLES
    ws_vendor,       \* module global: the worksheet handle, or None
    sheet_rows,      \* the rows of the vendor worksheet (the external sink)
    invoice_items,   \* self.invoice_items
    selected_index,  \* self.selected_index
    vendor_var, notes_txt, pan_var, gst_var, version_var, lang_var, qty_var,
    pan_img_var, gst_img_var,    \* the two image labels
    pan_img_path, gst_img_path,  \* attributes created on first assignment
    invoice_list,    \* the lines of the preview Listbox
    total_var,       \* the text of the total label
    now,             \* the clock that datetime.datetime.now() reads
    last             \* what the last handler did: dialogs shown, sink calls,
                     \* and the exception that escaped it, if any

vars == <<ws_vendor, sheet_rows, invoice_items, selected_index,
          vendor_var, notes_txt, pan_var, gst_var, version_var, lang_var,
          qty_var, pan_img_var, gst_img_var, pan_img_path, gst_img_path,
          invoice_list, total_var, now, last>>

formVars == <<vendor_var, notes_txt, pan_var, gst_var, version_var, lang_var,
              qty_var, pan_img_var, gst_img_var, pan_img_path, gst_img_path,
              selected_index>>

(***************************************************************************)
(* Bounds of the model.                                                    *)
(***************************************************************************)
MaxClock == 2   \* readings of the clock before no handler reads it again
MaxRows == 3    \* rows the worksheet may hold after a submission

(***************************************************************************)
(* Python and Tk primitives the handlers use.                              *)
(***************************************************************************)
None == <<>>
Some(i) == <<i>>

Whitespace == {" ", "\t", "\n"}

RECURSIVE LStrip(_)
LStrip(t) ==
    IF t # <<>> /\ Head(t) \in Whitespace THEN LStrip(Tail(t)) ELSE t

RECURSIVE RStrip(_)
RStrip(t) ==
    IF t # <<>> /\ t[Len(t)] \in Whitespace
    THEN RStrip(SubSeq(t, 1, Len(t) - 1))
    ELSE t

\* str.strip()
Strip(t) == RStrip(LStrip(t))

\* the ASCII decimal digits and their values
DigitVal == [c \in {"0", "1", "2", "3", "4", "5", "6", "7", "8", "9"} |->
               CASE c = "0" -> 0 [] c = "1" -> 1 [] c = "2" -> 2 [] c = "3" -> 3
                 [] c = "4" -> 4 [] c = "5" -> 5 [] c = "6" -> 6 [] c = "7" -> 7
                 [] c = "8" -> 8 [] c = "9" -> 9]
DecimalChars == DOMAIN DigitVal
DigitOf == <<"0", "1", "2", "3", "4", "5", "6", "7", "8", "9">>

\* characters for which str.isdigit() is true but which int() does not read:
\* the superscript two stands for them
SuperscriptTwo == "^2"
DigitChars == DecimalChars \cup {SuperscriptTwo}

\* str.isdigit(): non-empty and every character a digit
IsDigit(t) == t # <<>> /\ \A i \in 1..Len(t) : t[i] \in DigitChars

\* the digits of int(): decimal digits, single underscores only between digits
IntBodyOk(b) ==
    /\ b # <<>>
    /\ b[1] \in DecimalChars
    /\ b[Len(b)] \in DecimalChars
    /\ \A i \in 1..Len(b) :
          \/ b[i] \in DecimalChars
          \/ b[i] = "_" /\ b[i - 1] \in DecimalChars /\ b[i + 1] \in DecimalChars

IntSigned(t) == t # <<>> /\ Head(t) \in {"+", "-"}
IntBody(t) == IF IntSigned(t) THEN Tail(t) ELSE t

\* int(t) returns a value (otherwise it raises ValueError)
IntParses(t) == IntBodyOk(IntBody(Strip(t)))

RECURSIVE DigitsValue(_)
DigitsValue(b) ==
    IF b = <<>> THEN 0
    ELSE IF b[Len(b)] = "_" THEN DigitsValue(SubSeq(b, 1, Len(b) - 1))
    ELSE 10 * DigitsValue(SubSeq(b, 1, Len(b) - 1)) + DigitVal[b[Len(b)]]

\* int(t), where it parses
IntValue(t) ==
    LET s == Strip(t) IN
    IF IntSigned(s) /\ Head(s) = "-" THEN 0 - DigitsValue(Tail(s))
    ELSE DigitsValue(IntBody(s))

RECURSIVE NatStr(_)
NatStr(n) ==
    IF n < 10 THEN <<DigitOf[n + 1]>>
    ELSE NatStr(n \div 10) \o <<DigitOf[(n % 10) + 1]>>

\* str(n) of an int
Str(n) == IF n < 0 THEN <<"-">> \o NatStr(0 - n) ELSE NatStr(n)

\* os.path.basename: the last component, '' for the empty path
Basename(p) == IF p = <<>> THEN <<>> ELSE p[Len(p)]

\* os.path.join(directory, name)
Join(dir, name) == Append(dir, name)

\* getattr(self, name, default) of an attribute that may not exist yet
NoAttribute == <<"<no such attribute>">>
GetAttr(attr, default) == IF attr = NoAttribute THEN default ELSE attr

\* dict.get(key, default)
DictGet(d, key, default) == IF key \in DOMAIN d THEN d[key] ELSE default


(***************************************************************************)
(* Module-level data of the vendor module.                                 *)
(***************************************************************************)
ISEE == <<"ISEE">>
Actilearn10 == <<"Actilearn", " ", "1.0">>

PRICE_MAP ==
    (Actilearn10 :> 250)
    @@ (<<"Actilearn", " ", "Junior">> :> 180)
    @@ (<<"Papertronics">> :> 220)
    @@ (ISEE :> 300)
    @@ (<<"Financial", " ", "Literacy">> :> 200)
    @@ (<<"Plastic", " ", "Smart">> :> 150)
    @@ (<<"ClimateQuest">> :> 275)
    @@ (<<"Chemagica">> :> 230)

VERSIONS == DOMAIN PRICE_MAP

LANGUAGES == {<<"English">>, <<"Hindi">>, <<"Kannada">>, <<"Tamil">>, <<"Telugu">>,
              <<"Malayalam">>, <<"Marathi">>, <<"Gujarati">>, <<"Punjabi">>,
              <<"Bengali">>, <<"Odia">>, <<"Assamese">>, <<"Urdu">>}

IMAGES_SAVE_DIR == << <<"cwd">>, <<"uploaded_vendor_images">> >>

\* mutant: the default price of an unlisted version is 200
UnitPriceOf_Default200(version) == DictGet(PRICE_MAP, version, 200)

\* unit_price = PRICE_MAP.get(version, 0)
UnitPriceOf(version) == DictGet(PRICE_MAP, version, 0)

(***************************************************************************)
(* Dialogs and the record of the last handler.                             *)
(***************************************************************************)
Dialog(kind, title, text) == [kind |-> kind, title |-> title, text |-> text]

NoAttrToggleSubmit == <<"'VendorAppWindow' object has no attribute 'toggle_submit'">>
NoAttrStatusVar == <<"'VendorAppWindow' object has no attribute 'status_var'">>

Did(op, dialogs, raised, calls, failed) ==
    [op |-> op, dialogs |-> dialogs, raised |-> raised,
     calls |-> calls, failed |-> failed]

(***************************************************************************)
(* What the user can put into the form.  The fields are filled together,   *)
(* from a full form or a full form with one field changed; the comboboxes  *)
(* are read-only, so a version or language is one of the listed values or  *)
(* still empty.  qty is the content the user tries to give the quantity    *)
(* entry, which the entry's validation may refuse.                         *)
(***************************************************************************)
Form(vendor, notes, pan, gst, version, lang, qty) ==
    [vendor |-> vendor, notes |-> notes, pan |-> pan, gst |-> gst,
     version |-> version, lang |-> lang, qty |-> qty]

FormIsee ==
    Form(<<" ", "Acme">>, <<>>, <<"PAN1">>, <<"GST1", " ">>, ISEE, <<"English">>, <<"3">>)
FormActilearn ==
    Form(<<"Acme">>, <<"memo">>, <<"PAN1">>, <<"GST1">>, Actilearn10, <<"Hindi">>, <<"1">>)

Blanks == {<<>>, <<" ">>}

\* f with one required field left blank
OneBlank(f) ==
    {[f EXCEPT !.vendor = b] : b \in Blanks}
    \cup {[f EXCEPT !.pan = b] : b \in Blanks}
    \cup {[f EXCEPT !.gst = b] : b \in Blanks}
    \cup {[f EXCEPT !.version = <<>>], [f EXCEPT !.lang = <<>>], [f EXCEPT !.qty = <<>>]}

\* quantity contents other than a plain positive number
OddQuantities == {<<"0">>, <<"0", "3">>, <<SuperscriptTwo>>,
                  <<"-", "3">>, <<"a", "b", "c">>, <<" ", "3">>}

OtherQty(f) == {[f EXCEPT !.qty = q] : q \in OddQuantities}

\* the inputs of the window as a whole
FormInputs ==
    {FormIsee, FormActilearn,
     [FormIsee EXCEPT !.vendor = <<" ">>],
     [FormIsee EXCEPT !.qty = <<"0">>],
     [FormIsee EXCEPT !.qty = <<SuperscriptTwo>>],
     [FormIsee EXCEPT !.qty = <<"-", "3">>]}

\* the inputs that try the validation of add_update_line on every field
ValidationInputs ==
    {FormIsee, FormActilearn}
    \cup OneBlank(FormIsee)
    \cup OtherQty(FormIsee)
    \cup OtherQty([FormIsee EXCEPT !.pan = <<>>])

\* the files the user can pick in the file dialog; '' when it is cancelled
PickedFiles == {<<>>, << <<"home">>, <<"scan.png">> >>}

\* what the worksheet's append_row can raise
SinkErrors == {<<"APIError: quota exceeded">>}

(***************************************************************************)
(* What the class VendorAppWindow does not define.  refresh_invoice ends   *)
(* with self.toggle_submit(), and load_selected and clear_form end with    *)
(* self.status_var.set(...); neither attribute is assigned anywhere, so    *)
(* each of these statements raises AttributeError when it is reached.      *)
(***************************************************************************)
HasToggleSubmit == FALSE
HasStatusVar == FALSE

(***************************************************************************)
(* refresh_invoice: the preview lines and the total label, as it sets them *)
(* before it calls toggle_submit.                                          *)
(***************************************************************************)
\* f"{i+1}. {version} | {language} | Qty {qty} | Amount {amount}"
PreviewLine(i, it) ==
    <<Str(i), <<". ">>, it.version, <<" | ">>, it.language,
      <<" | Qty ">>, Str(it.qty), <<" | Amount ">>, Str(it.amount)>>

PreviewLines(items) == [i \in 1..Len(items) |-> PreviewLine(i, items[i])]

RECURSIVE SumAmounts(_)
SumAmounts(items) ==
    IF items = <<>> THEN 0
    ELSE SumAmounts(SubSeq(items, 1, Len(items) - 1)) + items[Len(items)].amount

\* f"Total: {total}"
TotalText(total) == <<"Total: ", total>>

\* mutant: the preview is rebuilt but the total label is left as it was
RefreshInvoice_StaleTotal(items) ==
    /\ invoice_list' = PreviewLines(items)
    /\ UNCHANGED total_var

RefreshInvoice(items) ==
    /\ invoice_list' = PreviewLines(items)
    /\ total_var' = TotalText(SumAmounts(items))

(***************************************************************************)
(* clear_form: the assignments it makes before it reaches status_var.      *)
(***************************************************************************)
ClearFormFields(keep_vendor) ==
    /\ vendor_var' = IF keep_vendor THEN vendor_var ELSE <<>>
    /\ notes_txt' = <<>>
    /\ pan_var' = <<>>
    /\ gst_var' = <<>>
    /\ version_var' = <<>>
    /\ lang_var' = <<>>
    /\ qty_var' = <<>>
    /\ pan_img_var' = <<>>
    /\ gst_img_var' = <<>>
    /\ pan_img_path' = <<>>
    /\ gst_img_path' = <<>>
    /\ selected_index' = None

RaisedByStatusVar == IF HasStatusVar THEN None ELSE NoAttrStatusVar

(***************************************************************************)
(* Init: the window after __init__ and create_ui.                          *)
(***************************************************************************)
Worksheet == <<"Vendorsheet">>

Init ==
    /\ ws_vendor \in {Worksheet, None}
    /\ sheet_rows = <<>>
    /\ invoice_items = <<>>
    /\ selected_index = None
    /\ vendor_var = <<>>
    /\ notes_txt = <<>>
    /\ pan_var = <<>>
    /\ gst_var = <<>>
    /\ version_var = <<>>
    /\ lang_var = <<>>
    /\ qty_var = <<>>
    /\ pan_img_var = <<>>
    /\ gst_img_var = <<>>
    /\ pan_img_path = NoAttribute
    /\ gst_img_path = NoAttribute
    /\ invoice_list = <<>>
    /\ total_var = TotalText(0)
    /\ now = 0
    /\ last = Did("init", <<>>, None, 0, FALSE)

(***************************************************************************)
(* The user edits the form.                                                *)
(***************************************************************************)
\* mutant: the quantity entry takes any text
Vcmd_AnyText(P) == TRUE

\* vcmd: lambda P: P.isdigit() or P == ""
Vcmd(P) == IsDigit(P) \/ P = <<>>

\* the user fills the form; the edit of the quantity entry (validate='key')
\* takes effect if vcmd accepts the content the entry would have
FillForm(f) ==
    /\ vendor_var' = f.vendor
    /\ notes_txt' = f.notes
    /\ pan_var' = f.pan
    /\ gst_var' = f.gst
    /\ version_var' = f.version
    /\ lang_var' = f.lang
    /\ qty_var' = IF Vcmd(f.qty) THEN f.qty ELSE qty_var
    /\ last' = Did("edit", <<>>, None, 0, FALSE)
    /\ UNCHANGED <<ws_vendor, sheet_rows, invoice_items, selected_index,
                   pan_img_var, gst_img_var, pan_img_path, gst_img_path,
                   invoice_list, total_var, now>>

(***************************************************************************)
(* browse_image(kind)                                                      *)
(***************************************************************************)
\* f"{int(datetime.datetime.now().timestamp())}_{os.path.basename(path)}"
SavedName(t, path) == Str(t) \o <<"_">> \o Basename(path)

BrowseImage(kind, path, copied) ==
    LET dest == Join(IMAGES_SAVE_DIR, SavedName(now + 1, path)) IN
    IF path = <<>>
    THEN /\ last' = Did("browse_image", <<>>, None, 0, FALSE)
         /\ UNCHANGED <<ws_vendor, sheet_rows, invoice_items, formVars,
                        invoice_list, total_var, now>>
    ELSE /\ now < MaxClock
         /\ now' = now + 1
         /\ IF ~copied
            THEN /\ last' = Did("browse_image",
                               <<Dialog("error", "Image Save Error",
                                        << <<"Could not save image: ">>, <<"OSError">> >>)>>,
                               None, 0, FALSE)
                 /\ UNCHANGED <<ws_vendor, sheet_rows, invoice_items, formVars,
                                invoice_list, total_var>>
            ELSE /\ IF kind = "pan"
                    THEN /\ pan_img_var' = Basename(dest)
                         /\ pan_img_path' = dest
                         /\ UNCHANGED <<gst_img_var, gst_img_path>>
                    ELSE /\ gst_img_var' = Basename(dest)
                         /\ gst_img_path' = dest
                         /\ UNCHANGED <<pan_img_var, pan_img_path>>
                 /\ last' = Did("browse_image",
                               <<Dialog("info", "Saved",
                                        << <<"Saved image: ">>, Basename(dest) >>)>>,
                               None, 0, FALSE)
                 /\ UNCHANGED <<ws_vendor, sheet_rows, invoice_items,
                                selected_index, vendor_var, notes_txt, pan_var,
                                gst_var, version_var, lang_var, qty_var,
                                invoice_list, total_var>>

(***************************************************************************)
(* add_update_line                                                         *)
(***************************************************************************)
\* datetime.datetime.now().isoformat()
Isoformat(t) == <<"T">> \o Str(t)

\* mutant: the amount forgets the quantity
Entry_AmountIsPrice(timestamp, vendor, notes, pan, gst, version, lang, qty_int, pan_img, gst_img) ==
    [timestamp |-> timestamp, vendor |-> vendor, notes |-> notes, pan |-> pan,
     gst |-> gst, version |-> version, language |-> lang, qty |-> qty_int,
     unit_price |-> DictGet(PRICE_MAP, version, 0),
     amount |-> DictGet(PRICE_MAP, version, 0),
     pan_img |-> pan_img, gst_img |-> gst_img]

\* the dict add_update_line builds from the stripped fields
Entry(timestamp, vendor, notes, pan, gst, version, lang, qty_int, pan_img, gst_img) ==
    [timestamp |-> timestamp,
     vendor |-> vendor,
     notes |-> notes,
     pan |-> pan,
     gst |-> gst,
     version |-> version,
     language |-> lang,
     qty |-> qty_int,
     unit_price |-> UnitPriceOf(version),
     amount |-> qty_int * UnitPriceOf(version),
     pan_img |-> pan_img,
     gst_img |-> gst_img]

\* mutant: the GST field is not among the required ones
AllRequired_SkipsGst(vendor, pan, gst, version, lang, qty) ==
    /\ vendor # <<>>
    /\ pan # <<>>
    /\ version # <<>>
    /\ lang # <<>>
    /\ qty # <<>>

\* if not (vendor and pan and gst and version and lang and qty)
AllRequired(vendor, pan, gst, version, lang, qty) ==
    /\ vendor # <<>>
    /\ pan # <<>>
    /\ gst # <<>>
    /\ version # <<>>
    /\ lang # <<>>
    /\ qty # <<>>

\* self.invoice_items.append(entry)
AppendItem(items, entry) == Append(items, entry)

MissingDataDialog ==
    Dialog("warning", "Missing Data", << <<"All fields except notes are required.">> >>)
InvalidDialog ==
    Dialog("warning", "Invalid", << <<"Quantity must be whole number.">> >>)

AddUpdateLine ==
    LET vendor == Strip(vendor_var)
        notes == Strip(notes_txt \o <<"\n">>)  \* get("1.0", tk.END) ends the text with a newline
        pan == Strip(pan_var)
        gst == Strip(gst_var)
        version == Strip(version_var)
        lang == Strip(lang_var)
        qty == Strip(qty_var)
        pan_img == GetAttr(pan_img_path, <<>>)
        gst_img == GetAttr(gst_img_path, <<>>)
    IN
    IF ~AllRequired(vendor, pan, gst, version, lang, qty)
    THEN /\ last' = Did("add_update_line", <<MissingDataDialog>>, None, 0, FALSE)
         /\ UNCHANGED <<ws_vendor, sheet_rows, invoice_items, formVars,
                        invoice_list, total_var, now>>
    ELSE IF ~IntParses(qty)
    THEN /\ last' = Did("add_update_line", <<InvalidDialog>>, None, 0, FALSE)
         /\ UNCHANGED <<ws_vendor, sheet_rows, invoice_items, formVars,
                        invoice_list, total_var, now>>
    ELSE /\ now < MaxClock
         /\ now' = now + 1
         /\ invoice_items' =
               AppendItem(invoice_items,
                          Entry(Isoformat(now + 1), vendor, notes, pan, gst, version,
                                lang, IntValue(qty), pan_img, gst_img))
         /\ RefreshInvoice(invoice_items')
         \* refresh_invoice ends with toggle_submit(): when that raises, the
         \* exception leaves add_update_line before clear_form(keep_vendor=True)
         /\ IF HasToggleSubmit
            THEN /\ ClearFormFields(TRUE)
                 /\ last' = Did("add_update_line", <<>>, RaisedByStatusVar, 0, FALSE)
            ELSE /\ UNCHANGED formVars
                 /\ last' = Did("add_update_line", <<>>, NoAttrToggleSubmit, 0, FALSE)
         /\ UNCHANGED <<ws_vendor, sheet_rows>>

(***************************************************************************)
(* load_selected: the Listbox selection is sel (empty, or one index)       *)
(***************************************************************************)
LoadSelected(sel) ==
    IF sel = None
    THEN /\ last' = Did("load_selected", <<>>, None, 0, FALSE)
         /\ UNCHANGED <<ws_vendor, sheet_rows, invoice_items, formVars,
                        invoice_list, total_var, now>>
    ELSE LET idx == sel[1]
             it == invoice_items[idx + 1]
         IN
         IF idx >= Len(invoice_items)
         THEN /\ last' = Did("load_selected", <<>>, <<"IndexError">>, 0, FALSE)
              /\ UNCHANGED <<ws_vendor, sheet_rows, invoice_items, formVars,
                             invoice_list, total_var, now>>
         ELSE /\ selected_index' = Some(idx)
              /\ vendor_var' = it.vendor
              /\ notes_txt' = it.notes
              /\ pan_var' = it.pan
              /\ gst_var' = it.gst
              /\ version_var' = it.version
              /\ lang_var' = it.language
              /\ qty_var' = Str(it.qty)
              /\ pan_img_var' = Basename(it.pan_img)
              /\ gst_img_var' = Basename(it.gst_img)
              /\ pan_img_path' = it.pan_img
              /\ gst_img_path' = it.gst_img
              /\ last' = Did("load_selected", <<>>, RaisedByStatusVar, 0, FALSE)
              /\ UNCHANGED <<ws_vendor, sheet_rows, invoice_items,
                             invoice_list, total_var, now>>

\* the selections the Listbox can report
Selections == {None} \cup {Some(i) : i \in 0..(Len(invoice_list) - 1)}

(***************************************************************************)
(* clear_form, from the Clear Form button (keep_vendor=False)              *)
(***************************************************************************)
\* mutant: the Clear Form button empties the invoice lines too
ClearForm_EmptiesLedger ==
    /\ ClearFormFields(FALSE)
    /\ invoice_items' = <<>>
    /\ RefreshInvoice(invoice_items')
    /\ last' = Did("clear_form", <<>>, RaisedByStatusVar, 0, FALSE)
    /\ UNCHANGED <<ws_vendor, sheet_rows, now>>

ClearForm ==
    /\ ClearFormFields(FALSE)
    /\ last' = Did("clear_form", <<>>, RaisedByStatusVar, 0, FALSE)
    /\ UNCHANGED <<ws_vendor, sheet_rows, invoice_items, invoice_list, total_var, now>>

(***************************************************************************)
(* submit_all                                                              *)
(***************************************************************************)
\* mutant: the GST number is written before the PAN number
Row_GstBeforePan(it) ==
    <<it.timestamp, it.vendor, it.notes, it.gst, it.pan, it.version, it.language,
      it.qty, it.unit_price, it.amount, Basename(it.pan_img), Basename(it.gst_img)>>

\* the list handed to append_row for one item
Row(it) ==
    <<it.timestamp, it.vendor, it.notes, it.pan, it.gst, it.version, it.language,
      it.qty, it.unit_price, it.amount, Basename(it.pan_img), Basename(it.gst_img)>>

RowsOf(items) == [i \in 1..Len(items) |-> Row(items[i])]

EmptyDialog == Dialog("info", "Empty", << <<"No invoice lines to submit.">> >>)
NotConnectedDialog ==
    Dialog("error", "Sheets Error", << <<"Vendor Google Sheet not connected.">> >>)
SuccessDialog == Dialog("info", "Success", << <<"Vendor data submitted!">> >>)
SubmitErrorDialog(e) == Dialog("error", "Submit Error", << <<"Could not submit:\n">>, e >>)

\* mutant: the loop goes on to the items after the one whose call failed
Written_ContinuesAfterFailure(items, k) ==
    IF k = 0
    THEN RowsOf(items)
    ELSE RowsOf(SubSeq(items, 1, k - 1)) \o RowsOf(SubSeq(items, k + 1, Len(items)))

\* the rows the loop writes when the failing call is the k-th (k = 0: none fails)
Written(items, k) == IF k = 0 THEN RowsOf(items) ELSE RowsOf(SubSeq(items, 1, k - 1))

\* mutant: the list is not emptied after the loop
AfterLoop_KeepsItems ==
    /\ invoice_items' = invoice_items
    /\ RefreshInvoice(invoice_items')
    /\ last' = Did("submit_all", <<SuccessDialog>>, None, Len(invoice_items), FALSE)

\* the statements after the loop, reached when no append_row call raised
AfterLoop ==
    /\ invoice_items' = <<>>
    /\ RefreshInvoice(invoice_items')
    /\ last' = Did("submit_all",
                   IF HasToggleSubmit
                   THEN <<SuccessDialog>>
                   ELSE <<SuccessDialog, SubmitErrorDialog(NoAttrToggleSubmit)>>,
                   None, Len(invoice_items), FALSE)

\* mutant: the lines are dropped when a call fails
LoopFailed_DropsBatch(k, e) ==
    /\ last' = Did("submit_all", <<SubmitErrorDialog(e)>>, None, k, TRUE)
    /\ invoice_items' = <<>>
    /\ RefreshInvoice(invoice_items')

\* except Exception as e, for e raised by the k-th append_row call
LoopFailed(k, e) ==
    /\ last' = Did("submit_all", <<SubmitErrorDialog(e)>>, None, k, TRUE)
    /\ UNCHANGED <<invoice_items, invoice_list, total_var>>

\* mutant: the connection is checked before the emptiness of the list
SubmitAll_ConnectionFirst(k, e) ==
    IF ws_vendor = None
    THEN /\ last' = Did("submit_all", <<NotConnectedDialog>>, None, 0, FALSE)
         /\ UNCHANGED <<ws_vendor, sheet_rows, invoice_items, formVars,
                        invoice_list, total_var, now>>
    ELSE IF invoice_items = <<>>
    THEN /\ last' = Did("submit_all", <<EmptyDialog>>, None, 0, FALSE)
         /\ UNCHANGED <<ws_vendor, sheet_rows, invoice_items, formVars,
                        invoice_list, total_var, now>>
    ELSE /\ k \in 0..Len(invoice_items)
         /\ Len(sheet_rows) + Len(Written(invoice_items, k)) <= MaxRows
         /\ sheet_rows' = sheet_rows \o Written(invoice_items, k)
         /\ IF k = 0 THEN AfterLoop ELSE LoopFailed(k, e)
         /\ UNCHANGED <<ws_vendor, formVars, now>>

\* mutant: the rows a failing submit has written are taken back
SubmitAll_RollsBack(k, e) ==
    IF invoice_items = <<>>
    THEN /\ last' = Did("submit_all", <<EmptyDialog>>, None, 0, FALSE)
         /\ UNCHANGED <<ws_vendor, sheet_rows, invoice_items, formVars,
                        invoice_list, total_var, now>>
    ELSE IF ws_vendor = None
    THEN /\ last' = Did("submit_all", <<NotConnectedDialog>>, None, 0, FALSE)
         /\ UNCHANGED <<ws_vendor, sheet_rows, invoice_items, formVars,
                        invoice_list, total_var, now>>
    ELSE /\ k \in 0..Len(invoice_items)
         /\ Len(sheet_rows) + Len(Written(invoice_items, k)) <= MaxRows
         /\ sheet_rows' = IF k = 0 THEN sheet_rows \o Written(invoice_items, k)
                                   ELSE sheet_rows
         /\ IF k = 0 THEN AfterLoop ELSE LoopFailed(k, e)
         /\ UNCHANGED <<ws_vendor, formVars, now>>

SubmitAll(k, e) ==
    IF invoice_items = <<>>
    THEN /\ last' = Did("submit_all", <<EmptyDialog>>, None, 0, FALSE)
         /\ UNCHANGED <<ws_vendor, sheet_rows, invoice_items, formVars,
                        invoice_list, total_var, now>>
    ELSE IF ws_vendor = None
    THEN /\ last' = Did("submit_all", <<NotConnectedDialog>>, None, 0, FALSE)
         /\ UNCHANGED <<ws_vendor, sheet_rows, invoice_items, formVars,
                        invoice_list, total_var, now>>
    ELSE /\ k \in 0..Len(invoice_items)
         /\ Len(sheet_rows) + Len(Written(invoice_items, k)) <= MaxRows
         /\ sheet_rows' = sheet_rows \o Written(invoice_items, k)
         /\ IF k = 0 THEN AfterLoop ELSE LoopFailed(k, e)
         /\ UNCHANGED <<ws_vendor, formVars, now>>

(***************************************************************************)
(* The window: any handler, on any input.                                  *)
(***************************************************************************)
DoFillForm == \E f \in FormInputs : FillForm(f)
DoBrowseImage ==
    \E kind \in {"pan", "gst"}, path \in PickedFiles, copied \in BOOLEAN :
        BrowseImage(kind, path, copied)
DoLoadSelected == \E sel \in Selections : LoadSelected(sel)
DoSubmitAll == \E k \in 0..MaxRows + 1, e \in SinkErrors : SubmitAll(k, e)

Next ==
    \/ DoFillForm
    \/ DoBrowseImage
    \/ AddUpdateLine
    \/ DoLoadSelected
    \/ ClearForm
    \/ DoSubmitAll

Spec == Init /\ [][Next]_vars

(***************************************************************************)
(* The form and the invoice lines, without submission, with the inputs     *)
(* that try the validation on every field.                                 *)
(***************************************************************************)
DoFillValidation == \E f \in ValidationInputs : FillForm(f)

NextValidation ==
    \/ DoFillValidation
    \/ DoBrowseImage
    \/ AddUpdateLine
    \/ DoLoadSelected
    \/ ClearForm

SpecValidation == Init /\ [][NextValidation]_vars

(***************************************************************************)
(* add_update_line on version labels in and outside the catalog: the form  *)
(* starts filled, with any of the probed labels as its version.            *)
(***************************************************************************)
ProbeVersions == VERSIONS \cup {<<"Robotics">>, <<"isee">>, <<"ISEE", " ", "2">>}
ProbeQuantities == {<<"1">>, <<"3">>, <<"1", "0">>}

InitCatalog ==
    /\ ws_vendor \in {Worksheet, None}
    /\ sheet_rows = <<>>
    /\ invoice_items = <<>>
    /\ selected_index = None
    /\ vendor_var = <<"Acme">>
    /\ notes_txt = <<>>
    /\ pan_var = <<"PAN1">>
    /\ gst_var = <<"GST1">>
    /\ version_var \in ProbeVersions
    /\ lang_var = <<"English">>
    /\ qty_var \in ProbeQuantities
    /\ pan_img_var = <<>>
    /\ gst_img_var = <<>>
    /\ pan_img_path = NoAttribute
    /\ gst_img_path = NoAttribute
    /\ invoice_list = <<>>
    /\ total_var = TotalText(0)
    /\ now = 0
    /\ last = Did("init", <<>>, None, 0, FALSE)

NextCatalog ==
    \/ AddUpdateLine
    \/ DoLoadSelected
    \/ ClearForm

SpecCatalog == InitCatalog /\ [][NextCatalog]_vars

(***************************************************************************)
(* Properties.                                                             *)
(***************************************************************************)
\* the step is a submit_all in which an append_row call raised
FailedSubmitStep == last'.op = "submit_all" /\ last'.failed

\* the step is a submit_all whose every append_row call returned
FullSubmitStep == last'.op = "submit_all" /\ ~last'.failed /\ last'.calls > 0

\* the step is an add_update_line that showed no warning
AcceptedAddStep == last'.op = "add_update_line" /\ last'.dialogs = <<>>

DialogFields == {"kind", "title", "text"}

RECURSIVE SumOfAmounts(_)
SumOfAmounts(items) ==
    IF items = <<>> THEN 0 ELSE Head(items).amount + SumOfAmounts(Tail(items))

\* C1 (as amended): when the k-th append_row call of a submit_all fails, the
\* ledger afterwards holds exactly the original items in their original
\* order, the worksheet has received exactly the rows of the first k-1 items,
\* and the error shown carries the failure reason only: it has no count of
\* completed rows.
C1_FailedSubmitKeepsLedger ==
    [][FailedSubmitStep =>
          /\ invoice_items' = invoice_items
          /\ last'.calls \in 1..Len(invoice_items)
          /\ sheet_rows' =
                sheet_rows \o RowsOf(SubSeq(invoice_items, 1, last'.calls - 1))
          /\ \E e \in SinkErrors : last'.dialogs = <<SubmitErrorDialog(e)>>
          /\ \A i \in DOMAIN last'.dialogs :
                DOMAIN last'.dialogs[i] = DialogFields]_vars

\* C1 witness: a submit of two lines failed on the second call
C1_Witness ==
    /\ last.op = "submit_all"
    /\ last.failed
    /\ last.calls = 2
    /\ Len(invoice_items) = 2
    /\ Len(sheet_rows) = 1

\* C1 as stated: after a failure on the k-th call the ledger is the original
\* one and the reported error carries completedCount = k-1.
C1_Original ==
    [][FailedSubmitStep =>
          /\ invoice_items' = invoice_items
          /\ \E i \in DOMAIN last'.dialogs :
                /\ last'.dialogs[i].kind = "error"
                /\ "completedCount" \in DOMAIN last'.dialogs[i]
                /\ last'.dialogs[i].completedCount = last'.calls - 1]_vars

\* C2: in every reachable state the total shown is the sum of the amounts of
\* the items in the ledger, and 0 when the ledger is empty.
C2_TotalIsSumOfAmounts ==
    /\ total_var = TotalText(SumOfAmounts(invoice_items))
    /\ invoice_items = <<>> => total_var = <<"Total: ", 0>>

\* C2 witness: lines of 900 and 250 are in the ledger and the total is 1150
C2_Witness ==
    /\ Len(invoice_items) = 2
    /\ invoice_items[1].amount = 900
    /\ invoice_items[2].amount = 250
    /\ total_var = <<"Total: ", 1150>>

ItemPriced(it) ==
    /\ it.version \in DOMAIN PRICE_MAP
    /\ it.unit_price = PRICE_MAP[it.version]
    /\ it.amount = it.qty * it.unit_price
    /\ (it.version = ISEE /\ it.qty = 3) => (it.unit_price = 300 /\ it.amount = 900)

\* C3: every item in the ledger has amount = quantity * unitPrice with
\* unitPrice the catalog price of its version (ISEE with quantity 3: 300 and
\* 900), and no step changes the unitPrice or the amount of an item that stays
\* in the ledger.
C3_AmountIsQuantityTimesPrice ==
    /\ [](\A i \in DOMAIN invoice_items : ItemPriced(invoice_items[i]))
    /\ [][\A i \in DOMAIN invoice_items :
             i \in DOMAIN invoice_items' =>
                /\ invoice_items'[i].unit_price = invoice_items[i].unit_price
                /\ invoice_items'[i].amount = invoice_items[i].amount]_vars

\* C3 witness: an ISEE line of quantity 3 is in the ledger while another
\* line is added after it
C3_Witness ==
    /\ Len(invoice_items) = 2
    /\ invoice_items[1].version = ISEE
    /\ invoice_items[1].qty = 3
    /\ invoice_items[1].amount = 900

\* C4 (as amended): for a version that is not a key of the catalog the price
\* lookup returns the fixed default 0, without failing, and the line built
\* with that version has unitPrice = 0 and amount = quantity * 0 = 0.
C4_UnlistedVersionPricedZero ==
    /\ \A v \in ProbeVersions \ DOMAIN PRICE_MAP : UnitPriceOf(v) = 0
    /\ \A i \in DOMAIN invoice_items :
          invoice_items[i].version \notin DOMAIN PRICE_MAP =>
             /\ invoice_items[i].unit_price = 0
             /\ invoice_items[i].amount = invoice_items[i].qty * 0

\* C4 witness: a line with an unlisted version has been built
C4_Witness ==
    /\ last.op = "add_update_line"
    /\ last.dialogs = <<>>
    /\ invoice_items # <<>>
    /\ invoice_items[Len(invoice_items)].version \notin DOMAIN PRICE_MAP
    /\ invoice_items[Len(invoice_items)].qty = 3

\* C4 as stated: a line built with an unlisted version has unitPrice = 200
\* and amount = quantity * 200.
C4_Original ==
    \A i \in DOMAIN invoice_items :
       invoice_items[i].version \notin DOMAIN PRICE_MAP =>
          /\ invoice_items[i].unit_price = 200
          /\ invoice_items[i].amount = invoice_items[i].qty * 200

\* C5 (as amended): a submit of a non-empty ledger of n items in which every
\* append_row call succeeds writes exactly the n rows of the items, in order,
\* shows the success dialog, which carries neither a count nor a total, and
\* leaves the ledger empty and the total shown at 0.
C5_FullSubmitWritesAllAndEmpties ==
    [][FullSubmitStep =>
          /\ invoice_items # <<>>
          /\ last'.calls = Len(invoice_items)
          /\ sheet_rows' = sheet_rows \o RowsOf(invoice_items)
          /\ Len(sheet_rows') = Len(sheet_rows) + Len(invoice_items)
          /\ invoice_items' = <<>>
          /\ total_var' = <<"Total: ", 0>>
          /\ last'.dialogs[1] = SuccessDialog
          /\ DOMAIN last'.dialogs[1] = DialogFields]_vars

\* C5 witness: a submit of two lines succeeded on both calls
C5_Witness ==
    /\ last.op = "submit_all"
    /\ ~last.failed
    /\ last.calls = 2
    /\ invoice_items = <<>>
    /\ Len(sheet_rows) = 2

\* C5 as stated: the successful submit writes the n rows, empties the ledger
\* and returns a success report with count = n and total = the ledger total
\* before the submit.
C5_Original ==
    [][FullSubmitStep =>
          /\ sheet_rows' = sheet_rows \o RowsOf(invoice_items)
          /\ invoice_items' = <<>>
          /\ \E i \in DOMAIN last'.dialogs :
                /\ last'.dialogs[i].kind = "info"
                /\ "count" \in DOMAIN last'.dialogs[i]
                /\ last'.dialogs[i].count = Len(invoice_items)
                /\ "total" \in DOMAIN last'.dialogs[i]
                /\ last'.dialogs[i].total = SumOfAmounts(invoice_items)]_vars

\* C6: submit_all on an empty ledger makes no append_row call, leaves the
\* worksheet rows and the empty ledger as they are, and reports "nothing to
\* submit" as an information, not an error, whether or not the worksheet is
\* connected and however often it is repeated.
C6_EmptySubmitDoesNothing ==
    [][(last'.op = "submit_all" /\ invoice_items = <<>>) =>
          /\ sheet_rows' = sheet_rows
          /\ invoice_items' = <<>>
          /\ last'.calls = 0
          /\ last'.raised = None
          /\ last'.dialogs = <<EmptyDialog>>
          /\ \A i \in DOMAIN last'.dialogs : last'.dialogs[i].kind = "info"]_vars

\* C6 witness: the empty ledger was submitted with the worksheet not connected
C6_Witness ==
    /\ ws_vendor = None
    /\ last.op = "submit_all"
    /\ last.dialogs = <<EmptyDialog>>
    /\ invoice_items = <<>>

\* a text that reads as a base-10 non-negative integer
Base10NonNegative(t) ==
    /\ t # <<>>
    /\ \A i \in 1..Len(t) :
          t[i] \in {"0", "1", "2", "3", "4", "5", "6", "7", "8", "9"}

\* the six required fields of the form are non-empty after trimming
FormComplete ==
    /\ Strip(vendor_var) # <<>>
    /\ Strip(pan_var) # <<>>
    /\ Strip(gst_var) # <<>>
    /\ Strip(version_var) # <<>>
    /\ Strip(lang_var) # <<>>
    /\ Strip(qty_var) # <<>>

C8_MissingFieldRejected ==
    [][last'.op = "add_update_line" =>
          /\ ~FormComplete =>
                /\ last'.dialogs = <<MissingDataDialog>>
                /\ invoice_items' = invoice_items
          /\ (FormComplete /\ Base10NonNegative(Strip(qty_var))) =>
                /\ last'.dialogs = <<>>
                /\ Len(invoice_items') = Len(invoice_items) + 1]_vars

\* C8 witness: a form with a blank PAN and a quantity that is not a number got
\* the missing-data warning
C8_Witness ==
    /\ last.op = "add_update_line"
    /\ last.dialogs = <<MissingDataDialog>>
    /\ Strip(pan_var) = <<>>
    /\ qty_var = <<SuperscriptTwo>>

\* C9: Add/Update with valid input while the line at position i is selected
\* replaces the item at i: the ledger keeps its length and every other item
\* keeps its place.
C9_EditReplacesSelected ==
    [][(AcceptedAddStep /\ selected_index # None) =>
          /\ Len(invoice_items') = Len(invoice_items)
          /\ \A i \in DOMAIN invoice_items :
                i # selected_index[1] + 1 => invoice_items'[i] = invoice_items[i]]_vars

\* C10: every item in the ledger has quantity > 0 and non-empty vendor, PAN,
\* GST, version and language.
C10_ItemsValid ==
    \A i \in DOMAIN invoice_items :
       /\ invoice_items[i].qty > 0
       /\ invoice_items[i].vendor # <<>>
       /\ invoice_items[i].pan # <<>>
       /\ invoice_items[i].gst # <<>>
       /\ invoice_items[i].version # <<>>
       /\ invoice_items[i].language # <<>>

\* the rows a submit_all step has added to the worksheet
AddedRows == SubSeq(sheet_rows', Len(sheet_rows) + 1, Len(sheet_rows'))

\* C11: within one submit_all the append_row calls are made on the items of
\* the ledger in its order (the j-th call is on the j-th item), no item gets a
\* second call, and the call that fails is the last call of that submit: the
\* rows written are those of the items before it and of no item after it.
C11_CallsInOrderStopAtFailure ==
    [][last'.op = "submit_all" =>
          /\ last'.calls \in 0..Len(invoice_items)
          /\ Len(sheet_rows') >= Len(sheet_rows)
          /\ SubSeq(sheet_rows', 1, Len(sheet_rows)) = sheet_rows
          /\ Len(AddedRows) = IF last'.failed THEN last'.calls - 1 ELSE last'.calls
          /\ \A j \in DOMAIN AddedRows : AddedRows[j] = Row(invoice_items[j])
          /\ \A i \in DOMAIN invoice_items :
                Cardinality({j \in DOMAIN AddedRows : AddedRows[j] = Row(invoice_items[i])}) <= 1
          /\ last'.failed =>
                \A i \in DOMAIN invoice_items :
                   i >= last'.calls =>
                      \A j \in DOMAIN AddedRows : AddedRows[j] # Row(invoice_items[i])]_vars

\* C11 witness: a submit of two lines failed on its first call, and the second
\* line got no call
C11_Witness ==
    /\ last.op = "submit_all"
    /\ last.failed
    /\ last.calls = 1
    /\ Len(invoice_items) = 2
    /\ sheet_rows = <<>>

\* the number of places of rows that hold the row r
Occurrences(r, rows) == Cardinality({j \in DOMAIN rows : rows[j] = r})

\* the state follows a submit_all that failed, and the step is a submit_all of
\* the same ledger in which every call returned
RetryStep ==
    /\ last.op = "submit_all"
    /\ last.failed
    /\ FullSubmitStep

\* C12: no step removes or changes a row the worksheet holds: the rows of a
\* state are an initial part of the rows of the next. And when a submit_all of
\* n lines that failed on its k-th call is followed by a submit_all of the
\* unchanged ledger in which every call returns, the two together have added
\* the rows of the lines 1..k-1 followed by the rows of all n lines: each of
\* the lines before the k-th is there twice, each line from the k-th on once.
C12_SinkAppendOnly ==
    /\ [][/\ Len(sheet_rows') >= Len(sheet_rows)
          /\ SubSeq(sheet_rows', 1, Len(sheet_rows)) = sheet_rows]_vars
    /\ [][RetryStep =>
             LET k == last.calls
                 n == Len(invoice_items)
                 before == Len(sheet_rows) - (k - 1)
                 both == SubSeq(sheet_rows', before + 1, Len(sheet_rows'))
             IN /\ k \in 1..n
                /\ before >= 0
                /\ both = RowsOf(SubSeq(invoice_items, 1, k - 1)) \o RowsOf(invoice_items)
                /\ SubSeq(sheet_rows', 1, before) = SubSeq(sheet_rows, 1, before)
                /\ \A i \in 1..n :
                      Occurrences(Row(invoice_items[i]), both) = IF i < k THEN 2 ELSE 1]_vars

\* C12 witness: a submit of two lines failed on the second call, the retry
\* wrote both, and the worksheet holds the first line's row twice
C12_Witness ==
    /\ last.op = "submit_all"
    /\ ~last.failed
    /\ last.calls = 2
    /\ Len(sheet_rows) = 3
    /\ sheet_rows[1] = sheet_rows[2]
    /\ sheet_rows[2] # sheet_rows[3]

\* every item of the ledger is still in its place after the step
KeepsEveryItem ==
    /\ Len(invoice_items') >= Len(invoice_items)
    /\ SubSeq(invoice_items', 1, Len(invoice_items)) = invoice_items

\* C13: the ledger is empty when the window opens; a step that takes it from
\* non-empty to empty is a submit_all in which every append_row call returned
\* (the window has no operation that clears the ledger on request); and every
\* other step (a rejected add, a failed submit, a submit without the
\* worksheet, an image upload, a selection, Clear Form) leaves every item of
\* the ledger in its place.
C13_OnlyFullSubmitEmptiesLedger ==
    /\ invoice_items = <<>>
    /\ [][(invoice_items # <<>> /\ invoice_items' = <<>>) => FullSubmitStep]_vars
    /\ [][~FullSubmitStep => KeepsEveryItem]_vars

\* C13 witness: Clear Form was pressed over a ledger of two lines, which are
\* still there
C13_Witness ==
    /\ last.op = "clear_form"
    /\ Len(invoice_items) = 2
    /\ Len(invoice_list) = 2
    /\ vendor_var = <<>>

\* the path p as the one string it is in the program: its components with
\* the separator between them, '' for the empty path
RECURSIVE PathText(_)
PathText(p) ==
    IF p = <<>> THEN <<>>
    ELSE IF Len(p) = 1 THEN p[1]
    ELSE p[1] \o <<"/">> \o PathText(Tail(p))

\* the file name a stored path ends with, '' for the empty path
FileNameOf(p) == IF p = <<>> THEN <<>> ELSE p[Len(p)]

\* the first ten fields of the row r are those of the item it, in the order
\* the worksheet expects
TenFieldsOf(r, it) ==
    /\ r[1] = it.timestamp
    /\ r[2] = it.vendor
    /\ r[3] = it.notes
    /\ r[4] = it.pan
    /\ r[5] = it.gst
    /\ r[6] = it.version
    /\ r[7] = it.language
    /\ r[8] = it.qty
    /\ r[9] = it.unit_price
    /\ r[10] = it.amount

\* C14 (as amended): every row handed to append_row has exactly 12 fields:
\* timestamp, vendor, notes, PAN, GST, version, language, quantity, unit price
\* and amount, each the item's own field, followed by the file names of the
\* item's two stored images, that is the last component of the stored path
\* and not the path itself, empty when the item has no image; and an item
\* does not change while it is in the ledger, so the fields are those it was
\* built with.
C14_RowFieldsInOrder ==
    /\ [][last'.op = "submit_all" =>
             \A j \in DOMAIN AddedRows :
                LET r == AddedRows[j]
                    it == invoice_items[j]
                IN /\ Len(r) = 12
                   /\ TenFieldsOf(r, it)
                   /\ r[11] = FileNameOf(it.pan_img)
                   /\ r[12] = FileNameOf(it.gst_img)
                   /\ it.pan_img # <<>> => r[11] # PathText(it.pan_img)
                   /\ it.gst_img # <<>> => r[12] # PathText(it.gst_img)]_vars
    /\ [][\A i \in DOMAIN invoice_items :
             i \in DOMAIN invoice_items' => invoice_items'[i] = invoice_items[i]]_vars

\* C14 witness: the row of a line with a PAN image and no GST image has been
\* written
C14_Witness ==
    /\ last.op = "submit_all"
    /\ Len(sheet_rows) = 1
    /\ sheet_rows[1][11] = <<"1", "_", "scan.png">>
    /\ sheet_rows[1][12] = <<>>
    /\ sheet_rows[1][4] = <<"PAN1">>
    /\ sheet_rows[1][5] = <<"GST1">>

\* C14 as stated: the 12 fields of a row are the item's fields, the two
\* attachment references included.
C14_Original ==
    [][last'.op = "submit_all" =>
          \A j \in DOMAIN AddedRows :
             LET r == AddedRows[j]
                 it == invoice_items[j]
             IN /\ Len(r) = 12
                /\ TenFieldsOf(r, it)
                /\ r[11] = PathText(it.pan_img)
                /\ r[12] = PathText(it.gst_img)]_vars

\* the titles of the dialogs a step has shown that say how a submit ended
OutcomeTitles == {"Empty", "Sheets Error", "Success", "Submit Error"}

\* some dialog of the step has the title t
Reported(t) == \E i \in DOMAIN last'.dialogs : last'.dialogs[i].title = t

\* C15: every submit_all shows exactly one dialog, one of "Empty", "Sheets
\* Error", "Success" and "Submit Error"; "Success" is shown if and only if
\* append_row was called and every call returned, and "Submit Error" is shown
\* only if a call failed.
C15_OneOutcomePerSubmit ==
    [][last'.op = "submit_all" =>
          /\ Len(last'.dialogs) = 1
          /\ last'.dialogs[1].title \in OutcomeTitles
          /\ Reported("Success") <=> FullSubmitStep
          /\ Reported("Submit Error") => last'.failed]_vars

\* C16: an add_update_line that accepted its input leaves the form reset: the
\* vendor name kept, every other field empty, no image path pending and no
\* line selected, so that the next line added without an upload has empty
\* image paths.
C16_FormResetAfterAdd ==
    /\ [][AcceptedAddStep =>
             /\ vendor_var' = vendor_var
             /\ notes_txt' = <<>>
             /\ pan_var' = <<>>
             /\ gst_var' = <<>>
             /\ version_var' = <<>>
             /\ lang_var' = <<>>
             /\ qty_var' = <<>>
             /\ pan_img_var' = <<>>
             /\ gst_img_var' = <<>>
             /\ pan_img_path' = <<>>
             /\ gst_img_path' = <<>>
             /\ selected_index' = None]_vars
    /\ [][(AcceptedAddStep /\ last.op = "add_update_line" /\ last.dialogs = <<>>) =>
             LET it == invoice_items'[Len(invoice_items')]
             IN it.pan_img = <<>> /\ it.gst_img = <<>>]_vars

====
